---- MODULE Spec2Model ----
(***************************************************************************)
(* Model of the batch file comparators of NC/Compare_txt.py and            *)
(* NC/Compare_nc_txt.py: the line aligner they call (difflib.Differ), the   *)
(* difference classifier _analyze_differences, the dual-encoding read of   *)
(* _compare_files and the run() loop with its counters and log.            *)
(*                                                                         *)
(* Text is modelled as sequences of one-character strings, so that the     *)
(* prefix tests, the slicing and the rstrip of the source are computed and *)
(* not assumed.  Indices of the difflib operators are 0-based and          *)
(* half-open, as in the Python source.                                     *)
(***************************************************************************)
EXTENDS Integers, Sequences, FiniteSets, TLC

\* ------------------------------------------------------------------ bounds
\* longest file, in lines
MaxLines == 3
\* longest alignment handed directly to the classifier
MaxDiff == 4
\* entries of the root directory
MaxFolders == 2

\* comparators constructed in one process
MaxInstances == 2

\* seconds the clock of the log file names may advance
MaxClock == 1

\* records one comparator logs, its header included
MaxMessages == 2

\* --------------------------------------------------------------- sequences
NL == "\n"

\* the byte 0xE9 standing alone: no UTF-8, and a letter in latin1
HighByte == "E9"

At(s, i) == s[i + 1]

Slice(s, lo, hi) == SubSeq(s, lo + 1, hi)

SetMax(S) == CHOOSE m \in S : \A n \in S : n <= m

SetMin(S) == CHOOSE m \in S : \A n \in S : m <= n

RECURSIVE Flatten(_)
Flatten(ss) == IF ss = <<>> THEN <<>> ELSE Head(ss) \o Flatten(Tail(ss))

\* str.isspace for the characters of the model
isspace(c) == c \in {" ", NL, "\t"}

\* s.rstrip('\n')
RECURSIVE rstrip_nl(_)
rstrip_nl(s) ==
    IF s # <<>> /\ s[Len(s)] = NL THEN rstrip_nl(SubSeq(s, 1, Len(s) - 1)) ELSE s

\* s.rstrip()
RECURSIVE rstrip(_)
rstrip(s) ==
    IF s # <<>> /\ isspace(s[Len(s)]) THEN rstrip(SubSeq(s, 1, Len(s) - 1)) ELSE s

\* ---------------------------------------------- difflib.SequenceMatcher
\* length of the run of equal elements that starts at a[i], b[j]
RECURSIVE MatchLen(_, _, _, _, _, _)
MatchLen(a, b, i, j, ahi, bhi) ==
    IF i < ahi /\ j < bhi /\ At(a, i) = At(b, j)
    THEN 1 + MatchLen(a, b, i + 1, j + 1, ahi, bhi)
    ELSE 0

\* The longest matching block of a[alo:ahi] and b[blo:bhi]; of the longest
\* blocks the one that starts earliest in a, and of those the one that
\* starts earliest in b.  No element is junk (Differ() is built with
\* linejunk=None and charjunk=None) and none is "popular" (fewer than 200
\* elements).
find_longest_match(a, b, alo, ahi, blo, bhi) ==
    LET Pos == (alo .. ahi - 1) \X (blo .. bhi - 1)
        len == [p \in Pos |-> MatchLen(a, b, p[1], p[2], ahi, bhi)]
        bestsize == IF Pos = {} THEN 0 ELSE SetMax({len[p] : p \in Pos})
        Best == {p \in Pos : len[p] = bestsize}
        besti == SetMin({p[1] : p \in Best})
        bestj == SetMin({p[2] : p \in {q \in Best : q[1] = besti}})
    IN  IF bestsize = 0 THEN <<alo, blo, 0>> ELSE <<besti, bestj, bestsize>>

RECURSIVE matching_blocks(_, _, _, _, _, _)
matching_blocks(a, b, alo, ahi, blo, bhi) ==
    LET m == find_longest_match(a, b, alo, ahi, blo, bhi)
        i == m[1]
        j == m[2]
        k == m[3]
    IN  IF k = 0 THEN <<>>
        ELSE (IF alo < i /\ blo < j
              THEN matching_blocks(a, b, alo, i, blo, j) ELSE <<>>)
             \o <<m>>
             \o (IF i + k < ahi /\ j + k < bhi
                 THEN matching_blocks(a, b, i + k, ahi, j + k, bhi) ELSE <<>>)

\* the blocks in order, closed by the dummy block (len(a), len(b), 0)
get_matching_blocks(a, b) ==
    matching_blocks(a, b, 0, Len(a), 0, Len(b)) \o << <<Len(a), Len(b), 0>> >>

RECURSIVE opcodes_from(_, _, _)
opcodes_from(blocks, i, j) ==
    IF blocks = <<>> THEN <<>>
    ELSE LET ai == Head(blocks)[1]
             bj == Head(blocks)[2]
             size == Head(blocks)[3]
             tag == IF i < ai /\ j < bj THEN "replace"
                    ELSE IF i < ai THEN "delete"
                    ELSE IF j < bj THEN "insert"
                    ELSE ""
             gap == IF tag = "" THEN <<>> ELSE << <<tag, i, ai, j, bj>> >>
             eq == IF size > 0
                   THEN << <<"equal", ai, ai + size, bj, bj + size>> >>
                   ELSE <<>>
         IN  gap \o eq \o opcodes_from(Tail(blocks), ai + size, bj + size)

get_opcodes(a, b) == opcodes_from(get_matching_blocks(a, b), 0, 0)

RECURSIVE SumSizes(_)
SumSizes(blocks) ==
    IF blocks = <<>> THEN 0 ELSE Head(blocks)[3] + SumSizes(Tail(blocks))

\* ratio() = 2.0 * matches / (len(a) + len(b)), kept as the pair
\* <<numerator, denominator>>; 1.0 when both are empty
ratio(a, b) ==
    IF Len(a) + Len(b) = 0 THEN <<1, 1>>
    ELSE <<2 * SumSizes(get_matching_blocks(a, b)), Len(a) + Len(b)>>

\* r > s, r >= s for ratios with positive denominators
RatioGT(r, s) == r[1] * s[2] > s[1] * r[2]

RatioGE(r, s) == r[1] * s[2] >= s[1] * r[2]

\* ------------------------------------------------------- difflib.Differ
\* The line that stands for the exception the aligner raises when it is
\* given bytes lines and reaches the intraline marking (_keep_original_ws
\* calls isspace on an int).
RAISED == <<"AttributeError">>

\* repr() of a bytes line, which is what '%s %s' % (tag, x[i]) prints for it
RECURSIVE escape_bytes(_)
escape_bytes(s) ==
    IF s = <<>> THEN <<>>
    ELSE (IF Head(s) = NL THEN <<"\\", "n">>
          ELSE IF Head(s) = HighByte THEN <<"\\", "x", "e", "9">>
          ELSE <<Head(s)>>)
         \o escape_bytes(Tail(s))

repr_bytes(s) == <<"b", "'">> \o escape_bytes(s) \o <<"'">>

\* '%s %s' % (tag, x[i]) for i in range(lo, hi)
dump(tag, x, lo, hi, isbytes) ==
    [n \in 1 .. (hi - lo) |->
        <<tag, " ">> \o (IF isbytes THEN repr_bytes(At(x, lo + n - 1))
                         ELSE At(x, lo + n - 1))]

plain_replace(a, alo, ahi, b, blo, bhi, isbytes) ==
    IF bhi - blo < ahi - alo
    THEN dump("+", b, blo, bhi, isbytes) \o dump("-", a, alo, ahi, isbytes)
    ELSE dump("-", a, alo, ahi, isbytes) \o dump("+", b, blo, bhi, isbytes)

keep_original_ws(s, tag_s) ==
    [n \in 1 .. (IF Len(s) < Len(tag_s) THEN Len(s) ELSE Len(tag_s)) |->
        IF tag_s[n] = " " /\ isspace(s[n]) THEN s[n] ELSE tag_s[n]]

qformat(aline, bline, atags, btags, isbytes) ==
    IF isbytes THEN <<RAISED>>
    ELSE LET at == rstrip(keep_original_ws(aline, atags))
             bt == rstrip(keep_original_ws(bline, btags))
         IN  << <<"-", " ">> \o aline >>
             \o (IF at # <<>> THEN << <<"?", " ">> \o at \o <<NL>> >> ELSE <<>>)
             \o << <<"+", " ">> \o bline >>
             \o (IF bt # <<>> THEN << <<"?", " ">> \o bt \o <<NL>> >> ELSE <<>>)

Fill(c, n) == [k \in 1 .. n |-> c]

\* the tag strings of one intraline opcode
atag_of(op) ==
    LET la == op[3] - op[2]
    IN  CASE op[1] = "replace" -> Fill("^", la)
          [] op[1] = "delete" -> Fill("-", la)
          [] op[1] = "insert" -> <<>>
          [] op[1] = "equal" -> Fill(" ", la)

btag_of(op) ==
    LET lb == op[5] - op[4]
    IN  CASE op[1] = "replace" -> Fill("^", lb)
          [] op[1] = "delete" -> <<>>
          [] op[1] = "insert" -> Fill("+", lb)
          [] op[1] = "equal" -> Fill(" ", lb)

intraline(aelt, belt, isbytes) ==
    LET ops == get_opcodes(aelt, belt)
    IN  qformat(aelt, belt,
                Flatten([n \in 1 .. Len(ops) |-> atag_of(ops[n])]),
                Flatten([n \in 1 .. Len(ops) |-> btag_of(ops[n])]),
                isbytes)

\* best_ratio starts at 0.74 and the cutoff is 0.75
BestRatioStart == <<74, 100>>

Cutoff == <<75, 100>>

RECURSIVE fancy_replace(_, _, _, _, _, _, _)
RECURSIVE fancy_helper(_, _, _, _, _, _, _)
fancy_replace(a, alo, ahi, b, blo, bhi, isbytes) ==
    LET Pairs == (alo .. ahi - 1) \X (blo .. bhi - 1)
        Eq == {p \in Pairs : At(a, p[1]) = At(b, p[2])}
        First(S) == LET j == SetMin({p[2] : p \in S})
                    IN  <<SetMin({p[1] : p \in {q \in S : q[2] = j}}), j>>
        \* the lines around the pair the search settled on
        emit(synched, best) ==
            IF ~synched /\ Eq = {}
            THEN plain_replace(a, alo, ahi, b, blo, bhi, isbytes)
            ELSE fancy_helper(a, alo, best[1], b, blo, best[2], isbytes)
                 \o (IF synched
                     THEN intraline(At(a, best[1]), At(b, best[2]), isbytes)
                     ELSE << <<" ", " ">> \o At(a, best[1]) >>)
                 \o fancy_helper(a, best[1] + 1, ahi, b, best[2] + 1, bhi, isbytes)
        \* the search, given cruncher.ratio() of each pair that is not
        \* identical
        search(r) ==
            LET \* the pairs the search may take: ratio above 0.74
                Close == {p \in Pairs \ Eq : RatioGT(r[p], BestRatioStart)}
                \* the loop runs j outside, i inside, and replaces its best
                \* only by a strictly higher ratio: the first of the highest
                Top == {p \in Close : \A q \in Close : RatioGE(r[p], r[q])}
                synched == Close # {} /\ RatioGE(r[First(Top)], Cutoff)
            IN  emit(synched, IF synched THEN First(Top) ELSE First(Eq))
    IN  search([p \in Pairs \ Eq |-> ratio(At(a, p[1]), At(b, p[2]))])

fancy_helper(a, alo, ahi, b, blo, bhi, isbytes) ==
    IF alo < ahi
    THEN IF blo < bhi
         THEN fancy_replace(a, alo, ahi, b, blo, bhi, isbytes)
         ELSE dump("-", a, alo, ahi, isbytes)
    ELSE IF blo < bhi
         THEN dump("+", b, blo, bhi, isbytes)
         ELSE <<>>

compare_opcode(a, b, op, isbytes) ==
    CASE op[1] = "replace" -> fancy_replace(a, op[2], op[3], b, op[4], op[5], isbytes)
      [] op[1] = "delete" -> dump("-", a, op[2], op[3], isbytes)
      [] op[1] = "insert" -> dump("+", b, op[4], op[5], isbytes)
      [] op[1] = "equal" -> dump(" ", a, op[2], op[3], isbytes)

\* list(differ.compare(a, b)); with RAISED in it, the call raised
Differ_compare(a, b, isbytes) ==
    LET ops == get_opcodes(a, b)
    IN  Flatten([n \in 1 .. Len(ops) |-> compare_opcode(a, b, ops[n], isbytes)])

\* ------------------------------------------------- _analyze_differences
\* the 'line' of a record that carries none ('line': '')
NoLine == 0

startswith(s, p) == Len(s) >= Len(p) /\ SubSeq(s, 1, Len(p)) = p

\* differences.append(...) of the '-' branch
removed_record(line_num, content) ==
    [type |-> "Removed", line |-> line_num + 1, content |-> rstrip_nl(content)]

\* differences.append(...) of the '+' branch
added_record(line_num, content) ==
    [type |-> "Added", line |-> line_num + 1, content |-> rstrip_nl(content)]

\* a counter that also advances on a removed line
line_num_after_removed_counted(line_num) == line_num + 1

\* line_num after a '-' line: unchanged
line_num_after_removed(line_num) == line_num

\* line_num after a '+' line
line_num_after_added(line_num) == line_num + 1

\* the test of the '?' branch
hint_applies(differences) ==
    differences # <<>> /\ differences[Len(differences)].type = "Removed"

\* a '?' branch that appends the changed content and forgets the promotion
hint_merge_unpromoted(differences, content) ==
    IF hint_applies(differences)
    THEN Append(differences, [type |-> "ChangedContent", line |-> NoLine,
                              content |-> rstrip_nl(content)])
    ELSE differences

\* a '?' branch that promotes the latest Removed record wherever it stands
hint_merge_latest(differences, content) ==
    LET R == {k \in 1 .. Len(differences) : differences[k].type = "Removed"}
    IN  IF R # {}
        THEN [differences EXCEPT ![SetMax(R)].type = "Changed"]
             \o <<[type |-> "ChangedContent", line |-> NoLine,
                   content |-> rstrip_nl(content)]>>
        ELSE differences

\* the '?' branch: promote the last record and append the changed content
hint_merge(differences, content) ==
    IF hint_applies(differences)
    THEN [differences EXCEPT ![Len(differences)].type = "Changed"]
         \o <<[type |-> "ChangedContent", line |-> NoLine,
               content |-> rstrip_nl(content)]>>
    ELSE differences

\* One pass of the loop body on one line of the alignment.  The record types
\* are '删除' (Removed), '添加' (Added), '变化' (Changed) and '变化后内容'
\* (ChangedContent).
analyze_line(acc, line) ==
    IF startswith(line, <<" ", " ">>)
    THEN [acc EXCEPT !.line_num = @ + 1]
    ELSE LET prefix == line[1]
             content == SubSeq(line, 3, Len(line))
         IN  CASE prefix = "-" ->
                    [differences |-> Append(acc.differences,
                                            removed_record(acc.line_num, content)),
                     line_num |-> line_num_after_removed(acc.line_num)]
               [] prefix = "+" ->
                    [differences |-> Append(acc.differences,
                                            added_record(acc.line_num, content)),
                     line_num |-> line_num_after_added(acc.line_num)]
               [] prefix = "?" ->
                    [acc EXCEPT !.differences = hint_merge(@, content)]
               [] OTHER -> acc

RECURSIVE analyze_from(_, _)
analyze_from(acc, diff_) ==
    IF diff_ = <<>> THEN acc
    ELSE analyze_from(analyze_line(acc, Head(diff_)), Tail(diff_))

\* _analyze_differences(diff): the list it returns
analyze_differences(diff_) ==
    analyze_from([differences |-> <<>>, line_num |-> 0], diff_).differences

\* ------------------------------------------------------------------ state
VARIABLES
    tool,         \* which program runs: "txt" (Compare_txt) or "nc" (Compare_nc_txt)
    pc,           \* position of the control
    lines1,       \* lines of the first file of the pair at hand
    lines2,       \* lines of the second file
    diff,         \* the alignment: list(differ.compare(lines1, lines2))
    pos,          \* lines of diff the classifier loop has consumed
    differences,  \* the classifier's list
    line_num,     \* the classifier's counter
    outcome,      \* what the pair's comparison returned or recorded
    entries,      \* os.listdir(parent_dir): the root directory
    work,         \* file_pairs / file_groups: the folders run() loops over
    idx,          \* folders of work that run() has finished
    ext_i,        \* extensions of file_exts done in the folder at hand (nc)
    comparisons,  \* comparison_results of the folder at hand (nc)
    results,      \* the summary run() builds
    log,          \* what the logger has written
    retval,       \* what run() returned
    different_files, \* self.different_files (nc)
    read,         \* how _compare_files read the pair at hand
    raised,       \* for each pair compared so far, whether its comparison raised
    handlers,     \* the handlers of logging.getLogger("BatchFileDiff")
    logfiles,     \* what each log file holds
    instances,    \* the comparators constructed so far in the process
    clock         \* datetime.now(), in seconds

vars == <<tool, pc, lines1, lines2, diff, pos, differences, line_num, outcome,
          entries, work, idx, ext_i, comparisons, results, log, retval,
          different_files, read, raised, handlers, logfiles, instances, clock>>

loggerVars == <<handlers, logfiles, instances, clock>>

pairVars == <<lines1, lines2, diff, pos, differences, line_num, outcome>>

runVars == <<entries, work, idx, ext_i, comparisons, results, log, retval,
             different_files, read, raised>>

Tools == {"txt", "nc"}

None == "None"

\* -------------------------------------------------------------- inputs
Chars(str) == str \o <<NL>>

\* the lines files are made of: two that are similar and one that is not
LinePool == {Chars(<<"x">>), Chars(<<"a", "b", "c">>), Chars(<<"a", "b", "d">>)}

LineSeqs == UNION {[1 .. n -> LinePool] : n \in 0 .. MaxLines}

\* one line of each tag an alignment can hold
DiffPool == {<<" ", " ", "a", NL>>, <<"-", " ", "b", NL>>,
             <<"+", " ", "x", NL>>, <<"?", " ", "^", NL>>}

Alignments == UNION {[1 .. n -> DiffPool] : n \in 0 .. MaxDiff}

\* ------------------------------------ the pair's outcome (both programs)
\* an outcome that tests 'if differences' where the source tests
\* 'if not differences'
pair_outcome_inverted(t, diffs) ==
    IF t = "txt"
    THEN IF diffs # <<>>
         THEN [is_identical |-> TRUE, differences |-> 0]
         ELSE [is_identical |-> FALSE, differences |-> Len(diffs)]
    ELSE IF diffs # <<>>
         THEN [status |-> "identical", differences |-> 0]
         ELSE [status |-> "different", differences |-> Len(diffs)]

\* Compare_txt returns (is_identical, diff_count); Compare_nc_txt records a
\* dict with 'status' and 'differences'.
pair_outcome(t, diffs) ==
    IF t = "txt"
    THEN IF diffs = <<>>
         THEN [is_identical |-> TRUE, differences |-> 0]
         ELSE [is_identical |-> FALSE, differences |-> Len(diffs)]
    ELSE IF diffs = <<>>
         THEN [status |-> "identical", differences |-> 0]
         ELSE [status |-> "different", differences |-> Len(diffs)]

\* ----------------------------------------------------- _setup_logger
\* The log files of the process: a name is the program's log directory and
\* file prefix with the timestamp of the second of construction.
LogFiles == Tools \X (0 .. MaxClock)

\* self.log_filename
log_filename(t, now) == <<t, now>>

\* logging.StreamHandler() and logging.FileHandler(self.log_filename) of
\* comparator i
console_handler(i) == [kind |-> "console", file |-> None, owner |-> i]

file_handler(i, name) == [kind |-> "file", file |-> name, owner |-> i]

\* the file handlers of the logger that write to name
FileHandlerCount(hs, name) ==
    Cardinality({k \in 1 .. Len(hs) : hs[k].kind = "file" /\ hs[k].file = name})

\* Logger.info / Logger.error: the record goes to every handler of the
\* logger, and a file handler appends it to its file
callHandlers(hs, files, rec) ==
    [name \in LogFiles |-> files[name] \o Fill(rec, FileHandlerCount(hs, name))]

\* self.logger.addHandler(console_handler); self.logger.addHandler(file_handler)
addHandlers(hs, i, name) == hs \o <<console_handler(i), file_handler(i, name)>>

\* no comparator constructed: the logger of a new process
IdleLogger ==
    /\ handlers = <<>>
    /\ logfiles = [name \in LogFiles |-> <<>>]
    /\ instances = <<>>
    /\ clock = 0

\* BatchFileComparator(parent_dir): __init__ calls _setup_logger, which names
\* the log file after the current second, adds its two handlers to the
\* shared logger and logs the header (one record stands for its lines)
SetupLogger ==
    /\ pc = "process"
    /\ Len(instances) < MaxInstances
    /\ \E t \in Tools :
        LET i == Len(instances) + 1
            name == log_filename(t, clock)
        IN  /\ handlers' = addHandlers(handlers, i, name)
            /\ logfiles' = callHandlers(handlers', logfiles, [by |-> i, n |-> 1])
            /\ instances' = Append(instances,
                                   [tool |-> t, log_filename |-> name, logged |-> 1])
    /\ UNCHANGED <<tool, pc, clock>>
    /\ UNCHANGED pairVars
    /\ UNCHANGED runVars

\* self.logger.info(...) or self.logger.error(...) of comparator i, in run()
LoggerInfo ==
    /\ pc = "process"
    /\ \E i \in 1 .. Len(instances) :
        /\ instances[i].logged < MaxMessages
        /\ logfiles' = callHandlers(handlers, logfiles,
                                    [by |-> i, n |-> instances[i].logged + 1])
        /\ instances' = [instances EXCEPT ![i].logged = @ + 1]
    /\ UNCHANGED <<tool, pc, handlers, clock>>
    /\ UNCHANGED pairVars
    /\ UNCHANGED runVars

\* a second passes
Tick ==
    /\ pc = "process"
    /\ clock < MaxClock
    /\ clock' = clock + 1
    /\ UNCHANGED <<tool, pc, handlers, logfiles, instances>>
    /\ UNCHANGED pairVars
    /\ UNCHANGED runVars

\* ------------------------------------------- the classifier, line by line
InLoop == pc = "analyze" /\ pos < Len(diff)

Consume ==
    LET acc == analyze_line([differences |-> differences, line_num |-> line_num],
                            diff[pos + 1])
    IN  /\ differences' = acc.differences
        /\ line_num' = acc.line_num
        /\ pos' = pos + 1
        /\ UNCHANGED <<tool, pc, lines1, lines2, diff, outcome>>
        /\ UNCHANGED runVars
        /\ UNCHANGED loggerVars

LoopCommon == InLoop /\ startswith(diff[pos + 1], <<" ", " ">>) /\ Consume

LoopRemoved == InLoop /\ startswith(diff[pos + 1], <<"-">>) /\ Consume

LoopAdded == InLoop /\ startswith(diff[pos + 1], <<"+">>) /\ Consume

LoopHint == InLoop /\ startswith(diff[pos + 1], <<"?">>) /\ Consume

LoopReturn ==
    /\ pc = "analyze"
    /\ pos = Len(diff)
    /\ pc' = "returned"
    /\ UNCHANGED <<tool, lines1, lines2, diff, pos, differences, line_num, outcome>>
    /\ UNCHANGED runVars
    /\ UNCHANGED loggerVars

IdleRun ==
    /\ entries = <<>>
    /\ work = <<>>
    /\ idx = 0
    /\ ext_i = 0
    /\ comparisons = <<>>
    /\ results = None
    /\ log = <<>>
    /\ retval = "unset"
    /\ different_files = <<>>
    /\ read = None
    /\ raised = <<>>

InitClassify ==
    /\ tool = "nc"
    /\ pc = "analyze"
    /\ lines1 = <<>>
    /\ lines2 = <<>>
    /\ diff \in Alignments
    /\ pos = 0
    /\ differences = <<>>
    /\ line_num = 0
    /\ outcome = None
    /\ IdleRun
    /\ IdleLogger

NextClassify == LoopCommon \/ LoopRemoved \/ LoopAdded \/ LoopHint \/ LoopReturn

SpecClassify == InitClassify /\ [][NextClassify]_vars

\* --------------------------------- one pair: align, classify, report
InitCompare ==
    /\ tool \in Tools
    /\ pc = "compare"
    /\ lines1 \in LineSeqs
    /\ lines2 \in LineSeqs
    /\ diff = <<>>
    /\ pos = 0
    /\ differences = <<>>
    /\ line_num = 0
    /\ outcome = None
    /\ IdleRun
    /\ IdleLogger

\* differ.compare(lines1, lines2) on text lines
Align ==
    /\ pc = "compare"
    /\ diff' = Differ_compare(lines1, lines2, FALSE)
    /\ pc' = "classify"
    /\ UNCHANGED <<tool, lines1, lines2, pos, differences, line_num, outcome>>
    /\ UNCHANGED runVars
    /\ UNCHANGED loggerVars

\* differences = self._analyze_differences(diff_result)
Classify ==
    /\ pc = "classify"
    /\ LET acc == analyze_from([differences |-> <<>>, line_num |-> 0], diff)
       IN  /\ differences' = acc.differences
           /\ line_num' = acc.line_num
    /\ pos' = Len(diff)
    /\ pc' = "report"
    /\ UNCHANGED <<tool, lines1, lines2, diff, outcome>>
    /\ UNCHANGED runVars
    /\ UNCHANGED loggerVars

\* if not differences: ... else: ...
Report ==
    /\ pc = "report"
    /\ outcome' = pair_outcome(tool, differences)
    /\ pc' = "reported"
    /\ UNCHANGED <<tool, lines1, lines2, diff, pos, differences, line_num>>
    /\ UNCHANGED runVars
    /\ UNCHANGED loggerVars

NextCompare == Align \/ Classify \/ Report

SpecCompare == InitCompare /\ [][NextCompare]_vars

\* ------------------------------------------------------- _compare_files
\* what the files of a pair may hold
FileLines == {<<Chars(<<"a", "b", "c">>)>>, <<Chars(<<"a", "b", "d">>)>>,
              <<Chars(<<"a", "b", HighByte>>)>>}

\* a file: whether open() succeeds on it, and its lines (a path that cannot
\* be opened has none)
Files == {[readable |-> FALSE, lines |-> <<>>]}
         \cup [readable : {TRUE}, lines : FileLines]

\* whether readlines() under encoding='utf-8' decodes the file
utf8_ok(f) ==
    \A n \in 1 .. Len(f.lines) :
        \A k \in 1 .. Len(f.lines[n]) : f.lines[n][k] # HighByte

\* how the except branch reads: Compare_txt keeps the bytes, Compare_nc_txt
\* decodes them as latin1
fallback(t) == IF t = "txt" THEN "bytes" ELSE "latin1"

\* a read that decodes each file on its own: the fallback only for the
\* file whose UTF-8 decode failed
read_pair_each(t, f1, f2) ==
    IF ~f1.readable \/ ~f2.readable
    THEN [exc |-> "OSError", attempts |-> 1, enc1 |-> None, enc2 |-> None,
          ok1 |-> utf8_ok(f1), ok2 |-> utf8_ok(f2)]
    ELSE [exc |-> None,
          attempts |-> IF utf8_ok(f1) /\ utf8_ok(f2) THEN 1 ELSE 2,
          enc1 |-> IF utf8_ok(f1) THEN "utf-8" ELSE fallback(t),
          enc2 |-> IF utf8_ok(f2) THEN "utf-8" ELSE fallback(t),
          ok1 |-> utf8_ok(f1), ok2 |-> utf8_ok(f2)]

\* The try/except of _compare_files.  Both files are opened before either
\* is read; a UnicodeDecodeError of either readlines() sends both to the
\* except branch; any other exception leaves the function.  ok1 and ok2
\* record whether each file decodes as UTF-8.
read_pair(t, f1, f2) ==
    IF ~f1.readable \/ ~f2.readable
    THEN [exc |-> "OSError", attempts |-> 1, enc1 |-> None, enc2 |-> None,
          ok1 |-> utf8_ok(f1), ok2 |-> utf8_ok(f2)]
    ELSE IF utf8_ok(f1) /\ utf8_ok(f2)
    THEN [exc |-> None, attempts |-> 1, enc1 |-> "utf-8", enc2 |-> "utf-8",
          ok1 |-> TRUE, ok2 |-> TRUE]
    ELSE [exc |-> None, attempts |-> 2, enc1 |-> fallback(t),
          enc2 |-> fallback(t), ok1 |-> utf8_ok(f1), ok2 |-> utf8_ok(f2)]

Range(seq) == {seq[n] : n \in 1 .. Len(seq)}

\* _compare_files(file1, file2): the exception it raises, or the alignment
\* and the two line counts
compare_files(t, f1, f2) ==
    LET r == read_pair(t, f1, f2)
        returned(d) ==
            IF RAISED \in Range(d)
            THEN [exc |-> "AttributeError", read |-> r, diff |-> <<>>,
                  n1 |-> 0, n2 |-> 0]
            ELSE [exc |-> None, read |-> r, diff |-> d,
                  n1 |-> Len(f1.lines), n2 |-> Len(f2.lines)]
    IN  IF r.exc # None
        THEN [exc |-> r.exc, read |-> r, diff |-> <<>>, n1 |-> 0, n2 |-> 0]
        ELSE returned(Differ_compare(f1.lines, f2.lines,
                                     r.enc1 = "bytes" \/ r.enc2 = "bytes"))

\* compare_files on every pair of files, computed once and looked up by
\* the actions
compare_files_table ==
    {<<x, compare_files(x[1], x[2], x[3])>> : x \in Tools \X Files \X Files}

compare_files_of(t, f1, f2) ==
    (CHOOSE p \in compare_files_table : p[1] = <<t, f1, f2>>)[2]

\* an except clause that takes only the errors of open() and read()
except_OSError(exc) == exc = "OSError"

\* 'except Exception as e': the clause takes every exception
except_Exception(exc) == TRUE

\* --------------------------------------------------------------- the log
Info(msg, folder) == [level |-> "INFO", msg |-> msg, folder |-> folder]

Error(msg, folder) == [level |-> "ERROR", msg |-> msg, folder |-> folder]

NoFolder == 0

\* ------------------------------------------------- Compare_txt: discovery
\* an entry of the root: a plain file, or a folder that holds file1_name
\* and file2_name or not
TxtEntries == {[isdir |-> FALSE, has1 |-> FALSE, has2 |-> FALSE]}
              \cup [isdir : {TRUE}, has1 : BOOLEAN, has2 : BOOLEAN]

\* _find_file_pairs(): the folders that hold both files, in listing order
find_file_pairs(es) ==
    SelectSeq([n \in 1 .. Len(es) |-> n],
              LAMBDA n : es[n].isdir /\ es[n].has1 /\ es[n].has2)

\* ---------------------------------------------- Compare_nc_txt: discovery
\* self.file_exts
Exts == <<".nc", ".txt">>

\* an entry of the root: a plain file, or a folder with so many files of
\* each extension (of more than two only files[0] and files[1] are read)
NcEntries == {[isdir |-> FALSE, n |-> [e \in Range(Exts) |-> 0]]}
             \cup [isdir : {TRUE}, n : [Range(Exts) -> 0 .. 2]]

\* _find_files(): every folder of the root, in listing order
find_files(es) ==
    SelectSeq([n \in 1 .. Len(es) |-> n], LAMBDA n : es[n].isdir)

Entries(t) == IF t = "txt" THEN TxtEntries ELSE NcEntries

EntrySeqs(t) == UNION {[1 .. n -> Entries(t)] : n \in 0 .. MaxFolders}

\* ------------------------------------------------------ Compare_txt.run
\* what _compare_file_pair returns from the except clause
error_return == [is_identical |-> FALSE, differences |-> -1]

\* _compare_file_pair(pair) without its log: the value it returns
compare_file_pair(c) ==
    IF c.exc # None THEN error_return
    ELSE pair_outcome("txt", analyze_differences(c.diff))

\* the log lines of _compare_file_pair
compare_file_pair_log(folder, c, ret) ==
    <<Info("processing", folder)>>
    \o (IF c.exc # None THEN <<Error("pair_error", folder)>>
        ELSE <<Info("line_counts", folder),
               Info(IF ret.is_identical THEN "identical" ELSE "different", folder)>>)

txt_results0(n) ==
    [total_folders |-> n, identical_count |-> 0, different_count |-> 0,
     error_count |-> 0, total_differences |-> 0, different_folders |-> <<>>,
     details |-> <<>>]

\* a loop body whose elif tests 'diff_count != 0': an Error pair is counted
\* as Different and its -1 is added to the total
txt_count_sentinel(res, folder, ret) ==
    LET r1 == [res EXCEPT !.details = Append(@, [folder |-> folder,
                              is_identical |-> ret.is_identical,
                              differences |-> ret.differences])]
    IN  IF ret.is_identical
        THEN [r1 EXCEPT !.identical_count = @ + 1]
        ELSE IF ret.differences # 0
        THEN [r1 EXCEPT !.different_count = @ + 1,
                        !.total_differences = @ + ret.differences,
                        !.different_folders = Append(@, folder)]
        ELSE [r1 EXCEPT !.error_count = @ + 1]

\* the body of the loop of run(): record the pair and count it
txt_count(res, folder, ret) ==
    LET r1 == [res EXCEPT !.details = Append(@, [folder |-> folder,
                              is_identical |-> ret.is_identical,
                              differences |-> ret.differences])]
    IN  IF ret.is_identical
        THEN [r1 EXCEPT !.identical_count = @ + 1]
        ELSE IF ret.differences > 0
        THEN [r1 EXCEPT !.different_count = @ + 1,
                        !.total_differences = @ + ret.differences,
                        !.different_folders = Append(@, folder)]
        ELSE [r1 EXCEPT !.error_count = @ + 1]

InitRun ==
    /\ tool \in Tools
    /\ pc = "run"
    /\ entries \in EntrySeqs(tool)
    /\ lines1 = <<>>
    /\ lines2 = <<>>
    /\ diff = <<>>
    /\ pos = 0
    /\ differences = <<>>
    /\ line_num = 0
    /\ outcome = None
    /\ work = <<>>
    /\ idx = 0
    /\ ext_i = 0
    /\ comparisons = <<>>
    /\ results = None
    /\ log = <<Info("startup", NoFolder)>>
    /\ retval = "unset"
    /\ different_files = <<>>
    /\ read = None
    /\ raised = <<>>
    /\ clock = 0
    /\ handlers = addHandlers(<<>>, 1, log_filename(tool, 0))
    /\ logfiles = callHandlers(handlers, [name \in LogFiles |-> <<>>],
                               [by |-> 1, n |-> 1])
    /\ instances = <<[tool |-> tool, log_filename |-> log_filename(tool, 0),
                      logged |-> 1]>>

\* run(): no file pair found
TxtRunEmpty ==
    /\ tool = "txt"
    /\ pc = "run"
    /\ find_file_pairs(entries) = <<>>
    /\ log' = Append(log, Error("no_pairs", NoFolder))
    /\ retval' = None
    /\ pc' = "done"
    /\ UNCHANGED <<tool, entries, work, idx, ext_i, comparisons, results,
                   different_files, read, raised>>
    /\ UNCHANGED pairVars
    /\ UNCHANGED loggerVars

\* run(): the pairs are listed and the summary is set up
TxtRunStart ==
    /\ tool = "txt"
    /\ pc = "run"
    /\ find_file_pairs(entries) # <<>>
    /\ work' = find_file_pairs(entries)
    /\ log' = Append(log, Info("found", NoFolder))
    /\ results' = txt_results0(Len(find_file_pairs(entries)))
    /\ idx' = 0
    /\ pc' = "loop"
    /\ UNCHANGED <<tool, entries, ext_i, comparisons, retval, different_files,
                   read, raised>>
    /\ UNCHANGED pairVars
    /\ UNCHANGED loggerVars

\* one pass of 'for pair in file_pairs'
TxtComparePair ==
    /\ tool = "txt"
    /\ pc = "loop"
    /\ idx < Len(work)
    /\ \E f1 \in Files, f2 \in Files :
        LET folder == work[idx + 1]
            pass(c) ==
                LET ret == compare_file_pair(c)
                IN  /\ read' = c.read
                    /\ raised' = Append(raised, c.exc # None)
                    /\ IF c.exc # None /\ ~except_Exception(c.exc)
                       THEN /\ pc' = "aborted"
                            /\ log' = Append(log, Info("processing", folder))
                            /\ UNCHANGED <<outcome, results, idx>>
                       ELSE /\ pc' = pc
                            /\ outcome' = ret
                            /\ log' = log \o compare_file_pair_log(folder, c, ret)
                            /\ results' = txt_count(results, folder, ret)
                            /\ idx' = idx + 1
        IN  pass(compare_files_of("txt", f1, f2))
    /\ UNCHANGED <<tool, entries, work, ext_i, comparisons, retval, different_files>>
    /\ UNCHANGED <<lines1, lines2, diff, pos, differences, line_num>>
    /\ UNCHANGED loggerVars

\* run(): the summary is logged and returned
TxtRunDone ==
    /\ tool = "txt"
    /\ pc = "loop"
    /\ idx = Len(work)
    /\ log' = Append(log, Info("summary", NoFolder))
    /\ retval' = "results"
    /\ pc' = "done"
    /\ UNCHANGED <<tool, entries, work, idx, ext_i, comparisons, results,
                   different_files, read, raised>>
    /\ UNCHANGED pairVars
    /\ UNCHANGED loggerVars

\* --------------------------------------------------- Compare_nc_txt.run
\* the dict _compare_in_folder appends for one extension
nc_result(ext, c) ==
    IF c.exc # None
    THEN [status |-> "error", error |-> c.exc, ext |-> ext]
    ELSE LET o == pair_outcome("nc", analyze_differences(c.diff))
         IN  [status |-> o.status, ext |-> ext, differences |-> o.differences]

\* the log lines of one compared extension
nc_result_log(folder, c, res) ==
    <<Info("comparing", folder)>>
    \o (IF c.exc # None THEN <<Error("pair_error", folder)>>
        ELSE <<Info("line_counts", folder), Info(res.status, folder)>>)

nc_results0(n) ==
    [total_folders |-> n, compared_pairs |-> 0, identical_pairs |-> 0,
     different_pairs |-> 0, error_pairs |-> 0, total_differences |-> 0,
     different_files |-> <<>>, details |-> <<>>]

\* the body of 'for comp in result["comparisons"]'
nc_count(res, folder, comp) ==
    LET r1 == [res EXCEPT !.compared_pairs = @ + 1]
    IN  IF comp.status = "identical"
        THEN [r1 EXCEPT !.identical_pairs = @ + 1]
        ELSE IF comp.status = "different"
        THEN [r1 EXCEPT !.different_pairs = @ + 1,
                        !.total_differences = @ + comp.differences,
                        !.different_files =
                            Append(@, [folder |-> folder, ext |-> comp.ext,
                                       differences |-> comp.differences])]
        ELSE IF comp.status = "error"
        THEN [r1 EXCEPT !.error_pairs = @ + 1]
        ELSE r1

\* run(): the root holds no folder
NcRunEmpty ==
    /\ tool = "nc"
    /\ pc = "run"
    /\ find_files(entries) = <<>>
    /\ log' = Append(log, Error("no_folders", NoFolder))
    /\ retval' = None
    /\ pc' = "done"
    /\ UNCHANGED <<tool, entries, work, idx, ext_i, comparisons, results,
                   different_files, read, raised>>
    /\ UNCHANGED pairVars
    /\ UNCHANGED loggerVars

\* run(): the folders are listed and the summary is set up
NcRunStart ==
    /\ tool = "nc"
    /\ pc = "run"
    /\ find_files(entries) # <<>>
    /\ work' = find_files(entries)
    /\ log' = Append(log, Info("found", NoFolder))
    /\ results' = nc_results0(Len(find_files(entries)))
    /\ idx' = 0
    /\ pc' = "folder"
    /\ UNCHANGED <<tool, entries, ext_i, comparisons, retval, different_files,
                   read, raised>>
    /\ UNCHANGED pairVars
    /\ UNCHANGED loggerVars

\* _compare_in_folder: its head
NcEnterFolder ==
    /\ tool = "nc"
    /\ pc = "folder"
    /\ idx < Len(work)
    /\ log' = Append(log, Info("processing", work[idx + 1]))
    /\ comparisons' = <<>>
    /\ ext_i' = 0
    /\ pc' = "exts"
    /\ UNCHANGED <<tool, entries, work, idx, results, retval, different_files,
                   read, raised>>
    /\ UNCHANGED pairVars
    /\ UNCHANGED loggerVars

\* 'for ext in self.file_exts' with fewer than two files of ext
NcSkipExt ==
    /\ tool = "nc"
    /\ pc = "exts"
    /\ ext_i < Len(Exts)
    /\ LET folder == work[idx + 1]
           n == entries[folder].n[Exts[ext_i + 1]]
       IN  /\ n < 2
           /\ log' = IF n = 1 THEN Append(log, Info("only_one_file", folder))
                     ELSE log
    /\ ext_i' = ext_i + 1
    /\ UNCHANGED <<tool, pc, entries, work, idx, comparisons, results, retval,
                   different_files, read, raised>>
    /\ UNCHANGED pairVars
    /\ UNCHANGED loggerVars

\* 'for ext in self.file_exts' with two files of ext: they are compared
NcCompareExt ==
    /\ tool = "nc"
    /\ pc = "exts"
    /\ ext_i < Len(Exts)
    /\ entries[work[idx + 1]].n[Exts[ext_i + 1]] >= 2
    /\ \E f1 \in Files, f2 \in Files :
        LET folder == work[idx + 1]
            ext == Exts[ext_i + 1]
            pass(c) ==
                LET res == nc_result(ext, c)
                IN  /\ read' = c.read
                    /\ raised' = Append(raised, c.exc # None)
                    /\ IF c.exc # None /\ ~except_Exception(c.exc)
                       THEN /\ pc' = "aborted"
                            /\ log' = Append(log, Info("comparing", folder))
                            /\ UNCHANGED <<outcome, comparisons, ext_i,
                                           different_files>>
                       ELSE /\ pc' = pc
                            /\ outcome' = res
                            /\ log' = log \o nc_result_log(folder, c, res)
                            /\ comparisons' = Append(comparisons, res)
                            /\ different_files' =
                                   IF res.status = "different"
                                   THEN Append(different_files,
                                               [folder |-> folder, ext |-> ext,
                                                differences |-> res.differences])
                                   ELSE different_files
                            /\ ext_i' = ext_i + 1
        IN  pass(compare_files_of("nc", f1, f2))
    /\ UNCHANGED <<tool, entries, work, idx, results, retval>>
    /\ UNCHANGED <<lines1, lines2, diff, pos, differences, line_num>>
    /\ UNCHANGED loggerVars

\* _compare_in_folder returns; run() appends its result to the details
NcFolderReturn ==
    /\ tool = "nc"
    /\ pc = "exts"
    /\ ext_i = Len(Exts)
    /\ results' = [results EXCEPT !.details =
                      Append(@, [folder |-> work[idx + 1],
                                 comparisons |-> comparisons])]
    /\ pc' = "count"
    /\ UNCHANGED <<tool, entries, work, idx, ext_i, comparisons, log, retval,
                   different_files, read, raised>>
    /\ UNCHANGED pairVars
    /\ UNCHANGED loggerVars

\* one pass of 'for comp in result["comparisons"]'
NcCount ==
    /\ tool = "nc"
    /\ pc = "count"
    /\ comparisons # <<>>
    /\ results' = nc_count(results, work[idx + 1], Head(comparisons))
    /\ comparisons' = Tail(comparisons)
    /\ UNCHANGED <<tool, pc, entries, work, idx, ext_i, log, retval,
                   different_files, read, raised>>
    /\ UNCHANGED pairVars
    /\ UNCHANGED loggerVars

\* the folder is counted: on to the next
NcNextFolder ==
    /\ tool = "nc"
    /\ pc = "count"
    /\ comparisons = <<>>
    /\ idx' = idx + 1
    /\ pc' = "folder"
    /\ UNCHANGED <<tool, entries, work, ext_i, comparisons, results, log, retval,
                   different_files, read, raised>>
    /\ UNCHANGED pairVars
    /\ UNCHANGED loggerVars

\* run(): the summary is logged and returned
NcRunDone ==
    /\ tool = "nc"
    /\ pc = "folder"
    /\ idx = Len(work)
    /\ log' = Append(log, Info("summary", NoFolder))
    /\ retval' = "results"
    /\ pc' = "done"
    /\ UNCHANGED <<tool, entries, work, idx, ext_i, comparisons, results,
                   different_files, read, raised>>
    /\ UNCHANGED pairVars
    /\ UNCHANGED loggerVars

Init == InitRun

Next ==
    \/ TxtRunEmpty \/ TxtRunStart \/ TxtComparePair \/ TxtRunDone
    \/ NcRunEmpty \/ NcRunStart \/ NcEnterFolder \/ NcSkipExt \/ NcCompareExt
    \/ NcFolderReturn \/ NcCount \/ NcNextFolder \/ NcRunDone

Spec == Init /\ [][Next]_vars

\* ------------------------------- comparators of one process and their logs
InitLoggers ==
    /\ tool = "txt"
    /\ pc = "process"
    /\ lines1 = <<>>
    /\ lines2 = <<>>
    /\ diff = <<>>
    /\ pos = 0
    /\ differences = <<>>
    /\ line_num = 0
    /\ outcome = None
    /\ IdleRun
    /\ IdleLogger

NextLoggers == SetupLogger \/ LoggerInfo \/ Tick

SpecLoggers == InitLoggers /\ [][NextLoggers]_vars

\* ================================================================ claims
\* the tag of a line of the alignment
Tag(line) ==
    IF startswith(line, <<" ", " ">>) THEN "Common"
    ELSE IF startswith(line, <<"-">>) THEN "Removed"
    ELSE IF startswith(line, <<"+">>) THEN "Added"
    ELSE IF startswith(line, <<"?">>) THEN "Hint"
    ELSE "Other"

\* how many of the first n lines of the alignment carry a tag of T
TagCount(T, n) == Cardinality({m \in 1 .. n : Tag(diff[m]) \in T})

\* the records of the removed lines, promoted or not, in order
RemovedRecords ==
    SelectSeq(differences, LAMBDA r : r.type \in {"Removed", "Changed"})

\* the first line after line n that is not Common (0 when there is none)
NextNonCommon(n) ==
    LET Later == {m \in n + 1 .. Len(diff) : Tag(diff[m]) # "Common"}
    IN  IF Later = {} THEN 0 ELSE SetMin(Later)

\* C2: every ChangedContent record of the classifier's list stands right
\* after a Changed record, and none stands first, whatever the order of the
\* tags of the alignment.
C2_ChangedContentFollowsChanged ==
    \A k \in 1 .. Len(differences) :
        differences[k].type = "ChangedContent"
            => k > 1 /\ differences[k - 1].type = "Changed"

\* a Hint first, two Hints in a row after a Removed line, and a merge done
C2_Witness ==
    /\ pc = "returned"
    /\ Len(diff) = 4
    /\ Tag(diff[1]) = "Hint"
    /\ Tag(diff[2]) = "Removed"
    /\ Tag(diff[3]) = "Hint"
    /\ Tag(diff[4]) = "Hint"
    /\ Len(differences) = 2
    /\ differences[2].type = "ChangedContent"

\* C4: after any prefix of the alignment line_num is the number of Added
\* plus the number of Common lines of the prefix; Removed and Hint lines
\* leave it unchanged.
C4_LineNumCountsAddedAndCommon ==
    pc \in {"analyze", "returned"}
        => line_num = TagCount({"Added", "Common"}, pos)

\* an alignment with all four tags consumed to its end
C4_Witness ==
    /\ pc = "returned"
    /\ pos = Len(diff)
    /\ {Tag(diff[m]) : m \in 1 .. Len(diff)} = {"Common", "Removed", "Added", "Hint"}
    /\ line_num = 2

\* C10 as stated: a Removed record is promoted to Changed only when the
\* line right after it in the alignment is a Hint.
C10_PromotedOnlyByAdjacentHint ==
    pc = "returned" =>
        /\ Len(RemovedRecords) = TagCount({"Removed"}, Len(diff))
        /\ \A n \in 1 .. Len(diff) :
              (Tag(diff[n]) = "Removed"
               /\ RemovedRecords[TagCount({"Removed"}, n)].type = "Changed")
                  => n < Len(diff) /\ Tag(diff[n + 1]) = "Hint"

\* C10 amended: a Removed record is promoted to Changed exactly when the
\* first line after it that is not Common is a Hint; Common lines between
\* the two do not prevent the promotion, and a Removed record followed by
\* another Removed or an Added line, or by nothing, stays Removed.
C10_PromotedByNextNonCommonHint ==
    pc = "returned" =>
        /\ Len(RemovedRecords) = TagCount({"Removed"}, Len(diff))
        /\ \A n \in 1 .. Len(diff) :
              Tag(diff[n]) = "Removed" =>
                  (RemovedRecords[TagCount({"Removed"}, n)].type = "Changed"
                   <=> (NextNonCommon(n) # 0
                        /\ Tag(diff[NextNonCommon(n)]) = "Hint"))

\* a Hint that a Common line separates from the Removed line it promotes,
\* beside a Removed line that stays as it is
C10_Witness ==
    /\ pc = "returned"
    /\ Len(diff) = 4
    /\ Tag(diff[1]) = "Removed"
    /\ Tag(diff[2]) = "Removed"
    /\ Tag(diff[3]) = "Common"
    /\ Tag(diff[4]) = "Hint"
    /\ differences[1].type = "Removed"
    /\ differences[2].type = "Changed"
    /\ differences[3].type = "ChangedContent"

\* the text of a line of the alignment, without its two-character prefix
Payload(line) == SubSeq(line, 3, Len(line))

\* The position in the first file of the line that line n of the alignment
\* removes or keeps: the Common and Removed lines of an alignment are the
\* lines of the first file, in order.
OriginalPosition(n) == TagCount({"Common", "Removed"}, n)

\* the alignment lists the first file: checked of the aligner, so that
\* OriginalPosition is the position the claims speak of
AlignmentCoversFirstFile ==
    pc \in {"classify", "report", "reported"} =>
        /\ TagCount({"Common", "Removed"}, Len(diff)) = Len(lines1)
        /\ \A n \in 1 .. Len(diff) :
              Tag(diff[n]) \in {"Common", "Removed"}
                  => lines1[OriginalPosition(n)] = Payload(diff[n])

\* C1: each Removed or Changed record carries as 'line' the 1-based
\* position in the first file of the line that was removed, also after
\* Added lines and in a run of Removed lines.
C1_RemovedLineIsOriginalPosition ==
    pc \in {"report", "reported"} =>
        /\ Len(RemovedRecords) = TagCount({"Removed"}, Len(diff))
        /\ \A n \in 1 .. Len(diff) :
              Tag(diff[n]) = "Removed"
                  => RemovedRecords[TagCount({"Removed"}, n)].line
                         = OriginalPosition(n)

\* C3: the alignment of a line sequence with itself classifies to the empty
\* list, and the pair is reported identical with a difference count of 0.
C3_SelfCompareIsIdentical ==
    lines1 = lines2 =>
        /\ pc \in {"report", "reported"} => differences = <<>>
        /\ pc = "reported" =>
              outcome = IF tool = "txt"
                        THEN [is_identical |-> TRUE, differences |-> 0]
                        ELSE [status |-> "identical", differences |-> 0]

\* a file of three lines, two of them alike, compared with itself
C3_Witness ==
    /\ pc = "reported"
    /\ lines1 = lines2
    /\ Len(lines1) = 3
    /\ lines1[1] # lines1[2]
    /\ lines1[2] = lines1[3]
    /\ Len(diff) = 3

\* the alignment without its Hint lines
RECURSIVE TagsWithoutHints(_)
TagsWithoutHints(d) ==
    IF d = <<>> THEN <<>>
    ELSE (IF Tag(Head(d)) = "Hint" THEN <<>> ELSE <<Tag(Head(d))>>)
         \o TagsWithoutHints(Tail(d))

\* one line replaced between two common lines
SingleReplacement ==
    /\ Len(lines1) = 3
    /\ Len(lines2) = 3
    /\ lines1[1] = lines2[1]
    /\ lines1[3] = lines2[3]
    /\ lines1[2] # lines2[2]
    /\ TagsWithoutHints(diff) = <<"Common", "Removed", "Added", "Common">>

\* C5: for one line b replaced by x between two common lines the classifier
\* yields [Removed(2, b), Added(2, x)] or [Changed(2, b), ChangedContent(x)]
\* and no other list, with or without Hint lines from the aligner.
C5_SingleReplacementYieldsOneOfTwo ==
    (pc \in {"report", "reported"} /\ SingleReplacement) =>
        LET b == rstrip_nl(lines1[2])
            x == rstrip_nl(lines2[2])
        IN  differences \in
              { <<[type |-> "Removed", line |-> 2, content |-> b],
                  [type |-> "Added", line |-> 2, content |-> x]>>,
                <<[type |-> "Changed", line |-> 2, content |-> b],
                  [type |-> "ChangedContent", line |-> NoLine, content |-> x]>> }

\* run() has set up its summary
HasResults ==
    \/ pc \in {"loop", "folder", "exts", "count", "aborted"}
    \/ pc = "done" /\ retval = "results"

\* _compare_files has been called
HasRead == raised # <<>>

\* how many pairs so far raised an exception
RaisedCount == Cardinality({n \in 1 .. Len(raised) : raised[n]})

\* the comparisons of every folder of the details, in order
AllComparisons ==
    Flatten([n \in 1 .. Len(results.details) |-> results.details[n].comparisons])

\* the pairs Compare_nc_txt has to compare: a folder and an extension with
\* two files of it
NcPairs ==
    {<<n, e>> \in (1 .. Len(entries)) \X Range(Exts) :
        entries[n].isdir /\ entries[n].n[e] >= 2}

\* C6: an exception raised while a pair is read, aligned or classified is
\* caught at that pair: the run never aborts, the pair is recorded as an
\* Error outcome (is_identical False and -1 in Compare_txt, status 'error'
\* in Compare_nc_txt), the error counter is the number of pairs that raised,
\* and every discovered pair has its outcome when the run is done.
C6_ExceptionCaughtAtThePair ==
    /\ pc # "aborted"
    /\ (tool = "txt" /\ HasResults) =>
          /\ Len(results.details) = Len(raised)
          /\ results.error_count = RaisedCount
          /\ \A n \in 1 .. Len(raised) :
                raised[n] <=> /\ results.details[n].is_identical = FALSE
                              /\ results.details[n].differences = -1
          /\ pc = "done" =>
                Len(results.details) = Len(find_file_pairs(entries))
    /\ (tool = "nc" /\ HasResults /\ pc \in {"folder", "done"}) =>
          /\ Len(AllComparisons) = Len(raised)
          /\ results.error_pairs = RaisedCount
          /\ \A n \in 1 .. Len(raised) :
                raised[n] <=> AllComparisons[n].status = "error"
          /\ pc = "done" =>
                /\ Len(AllComparisons) = Cardinality(NcPairs)
                /\ results.compared_pairs = Cardinality(NcPairs)

\* a finished run whose first pair raised and whose second pair did not
C6_Witness ==
    /\ pc = "done"
    /\ retval = "results"
    /\ Len(raised) >= 2
    /\ raised[1]
    /\ ~raised[2]

\* no folder of the root yields a pair to compare
NoValidPair ==
    IF tool = "txt" THEN find_file_pairs(entries) = <<>> ELSE NcPairs = {}

\* C7: with no subfolder, or with subfolders none of which yields a valid
\* pair, run() of either comparator logs an error, compares nothing and
\* returns None.
C7_NoValidPairReturnsNone ==
    (pc = "done" /\ NoValidPair) =>
        /\ retval = None
        /\ raised = <<>>
        /\ \E k \in 1 .. Len(log) : log[k].level = "ERROR"

\* the folders of the root that lack a complete pair
LacksPair(n) ==
    /\ entries[n].isdir
    /\ IF tool = "txt" THEN ~(entries[n].has1 /\ entries[n].has2)
       ELSE \E e \in Range(Exts) : entries[n].n[e] < 2

\* the log lines that tell of a skipped folder
SkipMessages == {"only_one_file", "skipped"}

\* C8: a subfolder that lacks a complete pair is skipped with a logged
\* warning, and no comparison of it is counted or recorded.
C8_IncompleteFolderSkippedWithWarning ==
    pc = "done" =>
        \A n \in 1 .. Len(entries) :
            LacksPair(n) =>
                /\ \E k \in 1 .. Len(log) :
                      log[k].folder = n /\ log[k].msg \in SkipMessages
                /\ (tool = "txt" /\ HasResults) =>
                      \A k \in 1 .. Len(results.details) :
                          results.details[k].folder # n

\* C9: the two files of a pair are read under one encoding: both by the
\* UTF-8 read when both decode, both by the fallback read when either does
\* not, in at most two read attempts.
C9_BothFilesReadAlike ==
    HasRead =>
        /\ read.attempts \in {1, 2}
        /\ read.enc1 = read.enc2
        /\ read.exc = None =>
              /\ read.enc1 = "utf-8" <=> (read.ok1 /\ read.ok2)
              /\ read.enc1 = "utf-8" <=> read.attempts = 1
              /\ read.enc1 # "utf-8" => read.enc1 = fallback(tool)

\* a pair whose first file decodes as UTF-8 and whose second does not
C9_Witness ==
    /\ HasRead
    /\ read.exc = None
    /\ read.ok1
    /\ ~read.ok2
    /\ read.attempts = 2
    /\ read.enc2 = fallback(tool)

\* the outcomes of Compare_txt so far, each with whether its pair raised
TxtOutcomes ==
    [n \in 1 .. Len(results.details) |->
        [kind |-> IF raised[n] THEN "error"
                  ELSE IF results.details[n].is_identical THEN "identical"
                  ELSE "different",
         differences |-> results.details[n].differences]]

\* the outcomes of Compare_nc_txt the loop over result['comparisons'] has
\* counted so far: all of the details but those still to count
NcOutcomes ==
    LET all == AllComparisons
        left == IF pc = "count" THEN Len(comparisons) ELSE 0
    IN  [n \in 1 .. (Len(all) - left) |->
            [kind |-> all[n].status,
             differences |-> IF all[n].status = "error" THEN -1
                             ELSE all[n].differences]]

KindCount(os, k) == Cardinality({n \in 1 .. Len(os) : os[n].kind = k})

RECURSIVE SumDifferent(_)
SumDifferent(os) ==
    IF os = <<>> THEN 0
    ELSE (IF Head(os).kind = "different" THEN Head(os).differences ELSE 0)
         + SumDifferent(Tail(os))

\* C11: in the loop of run() and in the summary the three outcome counters
\* partition the pairs processed so far: each counter is the number of
\* pairs of its outcome, their sum is the number of pairs processed (at the
\* end total_folders and len(details) in Compare_txt, compared_pairs in
\* Compare_nc_txt), and total_differences is the sum of the difference
\* counts of the Different pairs only.
C11_CountersPartitionThePairs ==
    /\ (tool = "txt" /\ HasResults /\ pc # "aborted") =>
          LET os == TxtOutcomes
          IN  /\ results.identical_count = KindCount(os, "identical")
              /\ results.different_count = KindCount(os, "different")
              /\ results.error_count = KindCount(os, "error")
              /\ results.identical_count + results.different_count
                    + results.error_count = Len(results.details)
              /\ Len(results.details) = idx
              /\ results.total_differences = SumDifferent(os)
              /\ results.total_differences >= results.different_count
              /\ pc = "done" => results.total_folders = Len(results.details)
    /\ (tool = "nc" /\ HasResults /\ pc # "aborted") =>
          LET os == NcOutcomes
          IN  /\ results.identical_pairs = KindCount(os, "identical")
              /\ results.different_pairs = KindCount(os, "different")
              /\ results.error_pairs = KindCount(os, "error")
              /\ results.identical_pairs + results.different_pairs
                    + results.error_pairs = results.compared_pairs
              /\ results.compared_pairs = Len(os)
              /\ results.total_differences = SumDifferent(os)
              /\ results.total_differences >= results.different_pairs
              /\ pc = "done" => results.compared_pairs = Len(raised)

\* a finished run of Compare_txt with a Different pair and an Error pair
C11_Witness ==
    /\ tool = "txt"
    /\ pc = "done"
    /\ retval = "results"
    /\ results.different_count = 1
    /\ results.error_count = 1
    /\ results.total_differences > 0

\* how often the n-th record of comparator i stands in a log file
Written(name, i, n) ==
    Cardinality({k \in 1 .. Len(logfiles[name]) :
                    logfiles[name][k] = [by |-> i, n |-> n]})

\* C12: however many comparators are constructed one after another in a
\* process, each record a comparator logs is written exactly once to its
\* own log file and to no log file of another comparator, and the handlers
\* of the shared logger are those of one comparator only.
C12_EachRecordOnceInItsOwnLog ==
    /\ \A i \in 1 .. Len(instances) :
          \A n \in 1 .. instances[i].logged :
              \A name \in LogFiles :
                  Written(name, i, n) =
                      IF name = instances[i].log_filename THEN 1 ELSE 0
    /\ \A h \in 1 .. Len(handlers) : handlers[h].owner = Len(instances)

====
